---- MODULE Spec2Model ----
(***************************************************************************)
(* Artemis21/bubbles: the PageRank score engine (Page, Pages), the         *)
(* force-directed layout engine (Graph, Particle), the renderer (Bubbles,  *)
(* Bubble, Arrow) and the driver of main.ts that wires the three together. *)
(*                                                                         *)
(* Numbers.  Scores and damping values are JavaScript numbers; the model   *)
(* keeps them as exact rationals <<n, d>> in lowest terms with d > 0, so   *)
(* the rounding of IEEE doubles is outside it.  The damping values used,   *)
(* 17/20 and 2^-14, give the same comparisons against 0.0001 in doubles.   *)
(*                                                                         *)
(* Positions, velocities, sizes and weights of the layout pass through     *)
(* Math.sqrt and Math.hypot, so the model keeps them on a grid: a layout   *)
(* number is <<v>>, standing for v / Scale, or NaN; every operation rounds *)
(* toward zero to the grid and yields NaN as JavaScript does.  The four    *)
(* settings of a Graph stay exact rationals.                               *)
(*                                                                         *)
(* Every call records itself in op and the state before it in pre, so that *)
(* what a call did is a predicate on the state after it.                   *)
(***************************************************************************)
EXTENDS Integers, Sequences, FiniteSets, TLC

VARIABLES
    pages,      \* Pages.pages: sequence of [name, links, score, newScore]
    damping,    \* Pages.damping
    tick,       \* Pages.tick
    particles,  \* Graph.particles: sequence of [name, size, pos, vel]
    weights,    \* Graph.weights: function from the keys set so far to their weight
    settings,   \* Graph's springConstant, targetDensity, damping, repulsionFactor
    lastSet,    \* the weight of the last successful setWeight(a, b, .) per <<a, b>>
    bubbles,    \* Bubbles.bubbles: sequence of [name, arrowsFrom, arrowsTo, pos, size]
    selected,   \* Bubbles.selected: a bubble, an arrow or NoEntity
    marked,     \* the entities whose element has the --selected class
    deleteButton, \* the onclick handler of the delete button
    nextId,     \* Bubbles.nextId
    nextArrow,  \* how many Arrow objects were constructed, plus 1
    fired,      \* the events the renderer fired during the last call, in order
    tickScores, \* whether a driver tick is done, and the scores at its end
    op,         \* the last call made and its outcome
    pre,        \* the engines' state just before that call
    calls,      \* how many calls have been made
    updates,    \* how many of them were update() since construction or the last reset()
    driven      \* the engine this run drives: "pages" or "graph"

view == <<bubbles, selected, marked, deleteButton, nextId, nextArrow>>

vars == <<pages, damping, tick, particles, weights, settings, lastSet, view,
          fired, tickScores, op, pre, calls, updates, driven>>

----------------------------------------------------------------------------
(* Bounds of the exploration.                                              *)

Names == {"A", "B", "C"}
GraphNames == {"A", "B"}
MaxCalls == 3
MaxGraphCalls == 5
MaxDriverCalls == 5
MaxBubbles == 2
MaxPages == 3
MaxLinks == 2
MaxParticles == 3
MaxDen == 2097152
Scale == 100
MaxCoord == 16000

----------------------------------------------------------------------------
(* Exact rational arithmetic.                                              *)

RECURSIVE Gcd(_, _)
Gcd(a, b) == IF b = 0 THEN a ELSE Gcd(b, a % b)

Abs(x) == IF x < 0 THEN -x ELSE x

Norm(n, d) ==
    LET g == Gcd(Abs(n), Abs(d))
        s == IF d < 0 THEN -1 ELSE 1
    IN  <<(s * n) \div g, (s * d) \div g>>

Rat(n, d) == Norm(n, d)
R0 == <<0, 1>>
R1 == <<1, 1>>

RAdd(x, y) ==
    LET g == Gcd(x[2], y[2])
    IN  Norm(x[1] * (y[2] \div g) + y[1] * (x[2] \div g), (x[2] \div g) * y[2])
RNeg(x) == <<-x[1], x[2]>>
RSub(x, y) == RAdd(x, RNeg(y))
RMul(x, y) ==
    LET a == Norm(x[1], y[2])
        b == Norm(y[1], x[2])
    IN  <<a[1] * b[1], a[2] * b[2]>>
RDivInt(x, k) == LET a == Norm(x[1], k) IN <<a[1], a[2] * x[2]>>
RAbs(x) == <<Abs(x[1]), x[2]>>
\* x < y, decided on the continued fractions of x and y, so that no cross
\* product is formed that could leave TLC's 32-bit integers
RECURSIVE RLt(_, _)
RLt(x, y) ==
    LET qx == x[1] \div x[2]
        qy == y[1] \div y[2]
        rx == x[1] % x[2]
        ry == y[1] % y[2]
    IN  IF qx # qy THEN qx < qy
        ELSE IF ry = 0 THEN FALSE
        ELSE IF rx = 0 THEN TRUE
        ELSE RLt(<<y[2], ry>>, <<x[2], rx>>)
RLe(x, y) == ~RLt(y, x)

\* Math.abs(x) < 0.0001
Tolerance == <<1, 10000>>

----------------------------------------------------------------------------
(* Page and Pages (the score engine).                                      *)

\* new Page(name, links): score = 1, newScore = 0
NewPage(name, links) ==
    [name |-> name, links |-> links, score |-> R1, newScore |-> R0]

\* Array.prototype.includes
Includes(s, x) == \E i \in DOMAIN s : s[i] = x

\* Array.prototype.find: index of the first element named name, 0 for undefined
RECURSIVE FindFrom(_, _, _)
FindFrom(s, name, i) ==
    IF i > Len(s) THEN 0
    ELSE IF s[i].name = name THEN i
    ELSE FindFrom(s, name, i + 1)
Find(s, name) == FindFrom(s, name, 1)

\* CalcLoop with the damping factor forgotten in the contribution
RECURSIVE CalcLoopUndamped(_, _, _, _, _)
CalcLoopUndamped(name, ps, d, i, acc) ==
    IF i > Len(ps) THEN acc
    ELSE IF Includes(ps[i].links, name)
         THEN CalcLoopUndamped(name, ps, d, i + 1,
                               RAdd(acc, RDivInt(ps[i].score, Len(ps[i].links))))
         ELSE CalcLoopUndamped(name, ps, d, i + 1, acc)

\* CalcLoop handing the score of a page with a dangling link to every page
RECURSIVE CalcLoopSpread(_, _, _, _, _)
CalcLoopSpread(name, ps, d, i, acc) ==
    IF i > Len(ps) THEN acc
    ELSE IF \/ Includes(ps[i].links, name)
            \/ \E k \in DOMAIN ps[i].links :
                  \A j \in DOMAIN ps : ps[j].name # ps[i].links[k]
         THEN CalcLoopSpread(name, ps, d, i + 1,
                             RAdd(acc, RDivInt(RMul(d, ps[i].score), Len(ps[i].links))))
         ELSE CalcLoopSpread(name, ps, d, i + 1, acc)

\* the loop of Page.calculateNew: newScore += damping * page.score / page.links.length
RECURSIVE CalcLoop(_, _, _, _, _)
CalcLoop(name, ps, d, i, acc) ==
    IF i > Len(ps) THEN acc
    ELSE IF Includes(ps[i].links, name)
         THEN CalcLoop(name, ps, d, i + 1,
                       RAdd(acc, RDivInt(RMul(d, ps[i].score), Len(ps[i].links))))
         ELSE CalcLoop(name, ps, d, i + 1, acc)

\* Page.calculateNew: the new score and the returned flag
CalculateNew(p, ps, d) ==
    LET ns == CalcLoop(p.name, ps, d, 1, RSub(R1, d))
    IN  [newScore |-> ns, ret |-> RLt(RAbs(RSub(ns, p.score)), Tolerance)]

\* UpdateLoop with `stable = page.calculateNew(this)` in place of `stable &&=`
RECURSIVE UpdateLoopLast(_, _, _, _)
UpdateLoopLast(ps, d, i, stable) ==
    IF i > Len(ps) THEN [pages |-> ps, stable |-> stable]
    ELSE LET r == CalculateNew(ps[i], ps, d)
         IN  UpdateLoopLast([ps EXCEPT ![i].newScore = r.newScore], d, i + 1, r.ret)

\* first loop of Pages.update: `stable &&= page.calculateNew(this)` evaluates its
\* right-hand side only while stable is still true
RECURSIVE UpdateLoop(_, _, _, _)
UpdateLoop(ps, d, i, stable) ==
    IF i > Len(ps) THEN [pages |-> ps, stable |-> stable]
    ELSE IF stable
         THEN LET r == CalculateNew(ps[i], ps, d)
              IN  UpdateLoop([ps EXCEPT ![i].newScore = r.newScore], d, i + 1, r.ret)
         ELSE UpdateLoop(ps, d, i + 1, stable)

\* Page.saveNew
SaveNew(p) == [p EXCEPT !.score = p.newScore]

\* Pages.update without the tick
UpdateResult(ps, d) ==
    LET r == UpdateLoop(ps, d, 1, TRUE)
    IN  [pages |-> [i \in DOMAIN r.pages |-> SaveNew(r.pages[i])], stable |-> r.stable]


\* the outcome of a call: what it returned or whether it threw
Outcome(kind, a, b, err, stable, val) ==
    [kind |-> kind, a |-> a, b |-> b, err |-> err, stable |-> stable, val |-> val]

\* the state of the engines and of the renderer, kept as `pre` across a call
Snapshot ==
    [pages |-> pages, damping |-> damping, tick |-> tick,
     particles |-> particles, weights |-> weights,
     bubbles |-> bubbles, selected |-> selected, marked |-> marked,
     tickScores |-> tickScores]

\* bookkeeping shared by every call.  The two engines share no state and no
\* code of one calls the other, so a run drives one of them, or the driver
\* that holds both.
Called(o) ==
    /\ calls' = calls + 1
    /\ pre' = Snapshot
    /\ op' = o
    /\ updates' = IF o.kind \in {"update", "tick"} THEN updates + 1
                  ELSE IF o.kind = "reset" THEN 0 ELSE updates
    /\ lastSet' = IF o.kind = "setWeight" /\ ~o.err
                  THEN [k \in DOMAIN lastSet \cup {<<o.a, o.b>>} |->
                           IF k = <<o.a, o.b>> THEN o.val ELSE lastSet[k]]
                  ELSE lastSet
    /\ tickScores' = IF o.kind = "tick" THEN [done |-> TRUE, scores |-> o.val]
                     ELSE tickScores
    /\ UNCHANGED <<driven, settings>>

\* a call on the score engine
PagesCall(o) ==
    /\ driven = "pages"
    /\ calls < MaxCalls
    /\ Called(o)
    /\ UNCHANGED <<particles, weights, view, fired>>

\* a call on the layout engine
GraphCall(o) ==
    /\ driven = "graph"
    /\ calls < MaxGraphCalls
    /\ Called(o)
    /\ UNCHANGED <<pages, damping, tick, view, fired>>

\* an event or an animation frame of the page main.ts drives
DriverCall(o) ==
    /\ driven = "driver"
    /\ calls < MaxDriverCalls
    /\ Called(o)

\* the scores an update can produce stay within TLC's 32-bit integers:
\* damping's denominator times the least common multiple of every
\* score's denominator times its page's link count is at most MaxDen
RECURSIVE DenLoop(_, _, _)
DenLoop(ps, i, acc) ==
    IF i > Len(ps) THEN acc
    ELSE LET k == ps[i].score[2] * (IF Len(ps[i].links) = 0 THEN 1 ELSE Len(ps[i].links))
             g == Gcd(acc, k)
         IN  IF (acc \div g) > MaxDen \div k THEN MaxDen + 1
             ELSE DenLoop(ps, i + 1, (acc \div g) * k)
Representable(ps, d) ==
    LET l == DenLoop(ps, 1, 1) IN l <= MaxDen /\ d[2] <= MaxDen \div l

\* Update leaving tick as it was
UpdateKeepsTick ==
    /\ Representable(pages, damping)
    /\ LET r == UpdateResult(pages, damping)
       IN  /\ pages' = r.pages
           /\ PagesCall(Outcome("update", "", "", FALSE, r.stable, R0))
    /\ UNCHANGED <<damping, tick>>

\* Pages.update
Update ==
    /\ Representable(pages, damping)
    /\ LET r == UpdateResult(pages, damping)
       IN  /\ pages' = r.pages
           /\ tick' = tick + 1
           /\ PagesCall(Outcome("update", "", "", FALSE, r.stable, R0))
    /\ UNCHANGED damping

\* Pages.getScore: the page found, or the error thrown
GetScoreCall(ps, name) ==
    LET i == Find(ps, name)
    IN  IF i = 0 THEN [err |-> TRUE, val |-> R0]
        ELSE [err |-> FALSE, val |-> ps[i].score]

GetScore(name) ==
    /\ LET r == GetScoreCall(pages, name)
       IN  PagesCall(Outcome("getScore", name, "", r.err, FALSE, r.val))
    /\ UNCHANGED <<pages, damping, tick>>

\* Pages.remove
RemoveResult(ps, name) == SelectSeq(ps, LAMBDA p : p.name # name)

Remove(name) ==
    /\ pages' = RemoveResult(pages, name)
    /\ PagesCall(Outcome("remove", name, "", FALSE, FALSE, R0))
    /\ UNCHANGED <<damping, tick>>

\* Pages.add
AddResult(ps, name) == Append(ps, NewPage(name, <<>>))

Add(name) ==
    /\ Len(pages) < MaxPages
    /\ pages' = AddResult(pages, name)
    /\ PagesCall(Outcome("add", name, "", FALSE, FALSE, R0))
    /\ UNCHANGED <<damping, tick>>

\* Pages.link: the pages afterwards, or the error thrown
LinkCall(ps, from, to) ==
    LET i == Find(ps, from)
    IN  IF i = 0 THEN [err |-> TRUE, pages |-> ps]
        ELSE [err |-> FALSE, pages |-> [ps EXCEPT ![i].links = Append(@, to)]]

Link(from, to) ==
    /\ LET i == Find(pages, from)
       IN  IF i = 0 THEN TRUE ELSE Len(pages[i].links) < MaxLinks
    /\ LET r == LinkCall(pages, from, to)
       IN  /\ pages' = r.pages
           /\ PagesCall(Outcome("link", from, to, r.err, FALSE, R0))
    /\ UNCHANGED <<damping, tick>>

\* UnlinkCall removing only the first occurrence of to
UnlinkFirst(ps, from, to) ==
    LET i == Find(ps, from)
    IN  IF i = 0 THEN [err |-> TRUE, pages |-> ps]
        ELSE LET l == ps[i].links
                 k == IF Includes(l, to)
                      THEN CHOOSE x \in DOMAIN l :
                               l[x] = to /\ \A y \in 1..(x - 1) : l[y] # to
                      ELSE 0
             IN  [err |-> FALSE,
                  pages |-> IF k = 0 THEN ps
                            ELSE [ps EXCEPT ![i].links =
                                     SubSeq(@, 1, k - 1) \o SubSeq(@, k + 1, Len(@))]]

\* Pages.unlink: the pages afterwards, or the error thrown
UnlinkCall(ps, from, to) ==
    LET i == Find(ps, from)
    IN  IF i = 0 THEN [err |-> TRUE, pages |-> ps]
        ELSE [err |-> FALSE,
              pages |-> [ps EXCEPT ![i].links = SelectSeq(@, LAMBDA l : l # to)]]

Unlink(from, to) ==
    /\ LET r == UnlinkCall(pages, from, to)
       IN  /\ pages' = r.pages
           /\ PagesCall(Outcome("unlink", from, to, r.err, FALSE, R0))
    /\ UNCHANGED <<damping, tick>>

\* ResetResult writing the wrong field
ResetNewScore(ps) == [i \in DOMAIN ps |-> [ps[i] EXCEPT !.newScore = R1]]

\* Pages.reset
ResetResult(ps) == [i \in DOMAIN ps |-> [ps[i] EXCEPT !.score = R1]]

Reset ==
    /\ pages' = ResetResult(pages)
    /\ tick' = 0
    /\ PagesCall(Outcome("reset", "", "", FALSE, FALSE, R0))
    /\ UNCHANGED damping

\* the damping slider: pages.damping = damping
Dampings == {Rat(17, 20), Rat(1, 16384)}

SetDamping(d) ==
    /\ damping' = d
    /\ PagesCall(Outcome("setDamping", "", "", FALSE, FALSE, d))
    /\ UNCHANGED <<pages, tick>>

----------------------------------------------------------------------------
(* Particle and Graph (the layout engine).                                 *)

\* a layout number: <<v>> is v / Scale; NaN is the value of 0 / 0
NaN == <<>>
IsNaN(a) == a = NaN
Num(k) == <<k * Scale>>

\* a / b rounded toward zero, for b > 0
Quot(a, b) == IF a < 0 THEN -((-a) \div b) ELSE a \div b

\* the integer square root of n >= 0
RECURSIVE IsqrtLoop(_, _, _)
IsqrtLoop(n, lo, hi) ==
    IF lo >= hi THEN lo
    ELSE LET mid == (lo + hi + 1) \div 2
         IN  IF mid * mid <= n THEN IsqrtLoop(n, mid, hi) ELSE IsqrtLoop(n, lo, mid - 1)
Isqrt(n) == IsqrtLoop(n, 0, 46340)

\* +, -, *, / and < of JavaScript numbers
FAdd(a, b) == IF IsNaN(a) \/ IsNaN(b) THEN NaN ELSE <<a[1] + b[1]>>
FSub(a, b) == IF IsNaN(a) \/ IsNaN(b) THEN NaN ELSE <<a[1] - b[1]>>
FMul(a, b) == IF IsNaN(a) \/ IsNaN(b) THEN NaN ELSE <<Quot(a[1] * b[1], Scale)>>
FLt(a, b) == ~IsNaN(a) /\ ~IsNaN(b) /\ a[1] < b[1]

\* a / b: 0 / 0 is NaN.  Vec2.div is called by asUnit alone, whose divisor is
\* 0 only for the vector (0, 0).
FDiv(a, b) ==
    IF IsNaN(a) \/ IsNaN(b) THEN NaN
    ELSE IF b[1] = 0 THEN NaN
    ELSE IF b[1] < 0 THEN <<Quot(-(a[1] * Scale), -b[1])>>
    ELSE <<Quot(a[1] * Scale, b[1])>>

\* a layout number times a setting r of the Graph, an exact rational
FMulS(a, r) == IF IsNaN(a) THEN NaN ELSE <<Quot(a[1] * r[1], r[2])>>

\* Math.max of two numbers, Math.sqrt, Math.hypot
FMax(a, b) ==
    IF IsNaN(a) \/ IsNaN(b) THEN NaN ELSE IF a[1] >= b[1] THEN a ELSE b
FSqrt(a) == IF IsNaN(a) \/ a[1] < 0 THEN NaN ELSE <<Isqrt(a[1] * Scale)>>
Hypot(x, y) ==
    IF IsNaN(x) \/ IsNaN(y) THEN NaN ELSE <<Isqrt(x[1] * x[1] + y[1] * y[1])>>

\* Vec2: add, sub, mul, div, length, distance, asUnit
Vec(x, y) == <<Num(x), Num(y)>>
VAdd(u, v) == <<FAdd(u[1], v[1]), FAdd(u[2], v[2])>>
VSub(u, v) == <<FSub(u[1], v[1]), FSub(u[2], v[2])>>
VMul(u, scalar) == <<FMul(u[1], scalar), FMul(u[2], scalar)>>
VMulS(u, r) == <<FMulS(u[1], r), FMulS(u[2], r)>>
VDiv(u, scalar) == <<FDiv(u[1], scalar), FDiv(u[2], scalar)>>
VLength(u) == Hypot(u[1], u[2])
Distance(u, v) == VLength(VSub(u, v))
AsUnit(u) == VDiv(u, VLength(u))

\* Vec2.randomUnit(): some vector of magnitude 1
UnitVecs == {Vec(1, 0), Vec(0, 1)}

\* the two draws of new Particle(name), pos then vel
RandomDraws == {<<p, v>> \in UnitVecs \X UnitVecs : p # v}

\* new Particle(name): size = 1, pos and vel random unit vectors
NewParticle(name, pos, vel) ==
    [name |-> name, size |-> Num(1), pos |-> pos, vel |-> vel]

\* Graph.getParticle: index of the first particle named name, 0 for undefined
GetParticle(ps, name) == Find(ps, name)

\* Graph.pairKey: `${a.name}\0${b.name}`
PairKey(a, b) == <<a.name, b.name>>

\* Map.prototype.set
MapSet(m, k, v) == [x \in DOMAIN m \cup {k} |-> IF x = k THEN v ELSE m[x]]

\* Graph.addParticle
AddParticleResult(ps, name, pos, vel) == Append(ps, NewParticle(name, pos, vel))

AddParticle(name, pos, vel) ==
    /\ Len(particles) < MaxParticles
    /\ particles' = AddParticleResult(particles, name, pos, vel)
    /\ GraphCall(Outcome("addParticle", name, "", FALSE, FALSE, R0))
    /\ UNCHANGED weights

\* RemoveParticleResult dropping only the first particle of that name
RemoveFirstParticle(ps, name) ==
    LET i == Find(ps, name)
    IN  IF i = 0 THEN ps ELSE SubSeq(ps, 1, i - 1) \o SubSeq(ps, i + 1, Len(ps))

\* Graph.removeParticle
RemoveParticleResult(ps, name) == SelectSeq(ps, LAMBDA p : p.name # name)

RemoveParticle(name) ==
    /\ particles' = RemoveParticleResult(particles, name)
    /\ GraphCall(Outcome("removeParticle", name, "", FALSE, FALSE, R0))
    /\ UNCHANGED weights

\* Graph.resizeParticle: the particles afterwards, or the error thrown
ResizeParticleCall(ps, name, size) ==
    LET i == GetParticle(ps, name)
    IN  IF i # 0 THEN [err |-> FALSE, particles |-> [ps EXCEPT ![i].size = size]]
        ELSE [err |-> TRUE, particles |-> ps]

ResizeParticle(name, size) ==
    /\ LET r == ResizeParticleCall(particles, name, size)
       IN  /\ particles' = r.particles
           /\ GraphCall(Outcome("resizeParticle", name, "", r.err, FALSE, R0))
    /\ UNCHANGED weights

\* SetWeightCall storing the weight under the given names without looking
\* the particles up
SetWeightUnchecked(ps, ws, a, b, weight) ==
    [err |-> FALSE, weights |-> MapSet(ws, <<a, b>>, weight)]

\* Graph.setWeight: the weights afterwards, or the error thrown
SetWeightCall(ps, ws, a, b, weight) ==
    LET i == GetParticle(ps, a)
        j == GetParticle(ps, b)
    IN  IF i = 0 \/ j = 0 THEN [err |-> TRUE, weights |-> ws]
        ELSE [err |-> FALSE, weights |-> MapSet(ws, PairKey(ps[i], ps[j]), weight)]

SetWeight(a, b, weight) ==
    /\ LET r == SetWeightCall(particles, weights, a, b, weight)
       IN  /\ weights' = r.weights
           /\ GraphCall(Outcome("setWeight", a, b, r.err, FALSE, weight))
    /\ UNCHANGED particles

\* Graph.setParticlePosition: the particles afterwards, or the error thrown
SetParticlePositionCall(ps, name, pos) ==
    LET i == GetParticle(ps, name)
    IN  IF i # 0 THEN [err |-> FALSE, particles |-> [ps EXCEPT ![i].pos = pos]]
        ELSE [err |-> TRUE, particles |-> ps]

SetParticlePosition(name, pos) ==
    /\ LET r == SetParticlePositionCall(particles, name, pos)
       IN  /\ particles' = r.particles
           /\ GraphCall(Outcome("setParticlePosition", name, "", r.err, FALSE, R0))
    /\ UNCHANGED weights

\* GetWeight looking the pair up in the given direction only
GetWeightOneWay(ws, a, b) ==
    FMax(Num(0), IF PairKey(a, b) \in DOMAIN ws THEN ws[PairKey(a, b)] ELSE Num(0))

\* this.weights.get(key) ?? 0
WeightOr0(ws, key) == IF key \in DOMAIN ws THEN ws[key] ELSE Num(0)

\* Graph.getWeight
GetWeight(ws, a, b) ==
    FMax(Num(0), FMax(WeightOr0(ws, PairKey(a, b)), WeightOr0(ws, PairKey(b, a))))

\* the settings of new Graph() and of new Graph({ damping: 0 })
DefaultSettings ==
    [springConstant |-> Rat(1, 200), targetDensity |-> Rat(100, 1),
     damping |-> Rat(9, 10), repulsionFactor |-> Rat(10, 1)]
SettingsArgs == {DefaultSettings, [DefaultSettings EXCEPT !.damping = R0]}

\* springLength in particleAcceleration, for count particles
SpringLength(count, cfg, weight, particle, sibling) ==
    LET minDistance == FAdd(particle.size, sibling.size)
        maxDistance == FMulS(FSqrt(Num(count)), cfg.targetDensity)
    IN  FMax(FSub(maxDistance, weight), minDistance)

\* SiblingForce reading the weight set from particle to sibling only
SiblingForceOneWay(ps, ws, cfg, particle, sibling) ==
    LET weight == GetWeightOneWay(ws, particle, sibling)
        springLength == SpringLength(Len(ps), cfg, weight, particle, sibling)
        extension == FSub(Distance(particle.pos, sibling.pos), springLength)
        force == FMulS(extension, cfg.springConstant)
        direction == AsUnit(VSub(sibling.pos, particle.pos))
    IN  VMul(direction,
             IF FLt(force, Num(0)) THEN FMulS(force, cfg.repulsionFactor) ELSE force)

\* the callback of map in particleAcceleration: the force of sibling on particle
SiblingForce(ps, ws, cfg, particle, sibling) ==
    LET weight == GetWeight(ws, particle, sibling)
        springLength == SpringLength(Len(ps), cfg, weight, particle, sibling)
        extension == FSub(Distance(particle.pos, sibling.pos), springLength)
        force == FMulS(extension, cfg.springConstant)
        direction == AsUnit(VSub(sibling.pos, particle.pos))
    IN  VMul(direction,
             IF FLt(force, Num(0)) THEN FMulS(force, cfg.repulsionFactor) ELSE force)

\* Graph.particleAcceleration of particle i: filter, map, reduce from (0, 0)
RECURSIVE AccelLoop(_, _, _, _, _, _)
AccelLoop(ps, ws, cfg, i, j, acc) ==
    IF j > Len(ps) THEN acc
    ELSE IF j = i THEN AccelLoop(ps, ws, cfg, i, j + 1, acc)
    ELSE AccelLoop(ps, ws, cfg, i, j + 1,
                   VAdd(acc, SiblingForce(ps, ws, cfg, ps[i], ps[j])))
ParticleAcceleration(ps, ws, cfg, i) == AccelLoop(ps, ws, cfg, i, 1, Vec(0, 0))

\* Particle.move
Move(p, accel, d) ==
    LET vel == VMulS(VAdd(p.vel, accel), d)
    IN  [p EXCEPT !.vel = vel, !.pos = VAdd(p.pos, vel)]

\* StepResult moving each particle as soon as its acceleration is computed
RECURSIVE StepSequentialLoop(_, _, _, _)
StepSequentialLoop(ps, ws, cfg, i) ==
    IF i > Len(ps) THEN ps
    ELSE StepSequentialLoop(
             [ps EXCEPT ![i] = Move(ps[i], ParticleAcceleration(ps, ws, cfg, i), cfg.damping)],
             ws, cfg, i + 1)
StepSequential(ps, ws, cfg) == StepSequentialLoop(ps, ws, cfg, 1)

\* Graph.step: every acceleration first, then every move
StepResult(ps, ws, cfg) ==
    [i \in DOMAIN ps |-> Move(ps[i], ParticleAcceleration(ps, ws, cfg, i), cfg.damping)]

\* every coordinate is small enough for the squares under Math.hypot to stay
\* within TLC's 32-bit integers
InRange(ps) ==
    \A i \in DOMAIN ps : \A v \in {ps[i].pos[1], ps[i].pos[2]} :
        IF IsNaN(v) THEN TRUE ELSE v[1] <= MaxCoord /\ -v[1] <= MaxCoord

Step ==
    /\ InRange(particles)
    /\ particles' = StepResult(particles, weights, settings)
    /\ GraphCall(Outcome("step", "", "", FALSE, FALSE, R0))
    /\ UNCHANGED weights

----------------------------------------------------------------------------
(* Bubbles, Bubble and Arrow (the renderer) with the handlers main.ts      *)
(* registers on them.                                                      *)

\* Bubbles.selected = null, and what a selection can hold.  A Bubble is known
\* by its name, which Bubbles.add gives once; an Arrow object by the number of
\* its construction.
NoEntity == [kind |-> "none", id |-> 0, from |-> "", to |-> ""]
BubbleEntity(name) == [kind |-> "bubble", id |-> 0, from |-> name, to |-> ""]
ArrowEntity(id, from, to) == [kind |-> "arrow", id |-> id, from |-> from, to |-> to]

\* `Page ${this.nextId++}`
PageNames == <<"Page 1", "Page 2", "Page 3", "Page 4">>

\* new Bubble(bubbles, name): no arrows, pos (0, 0), size 1
NewBubble(name) ==
    [name |-> name, arrowsFrom |-> <<>>, arrowsTo |-> <<>>,
     pos |-> Vec(0, 0), size |-> Num(1)]

\* deleteButton.onclick = null
NoHandler == [kind |-> "none", from |-> "", to |-> ""]

\* what one event or frame works on: the state of the engines and the renderer,
\* the events fired so far, and whether an error was thrown (what follows a
\* throw is skipped)
World ==
    [pages |-> pages, particles |-> particles, weights |-> weights,
     bubbles |-> bubbles, selected |-> selected, marked |-> marked,
     deleteButton |-> deleteButton, nextArrow |-> nextArrow,
     fired |-> <<>>, err |-> FALSE]

\* Bubbles.fire, as far as the record of the event
Fired(w, event, entity) ==
    [w EXCEPT !.fired = Append(@, [event |-> event, entity |-> entity])]

\* the handlers of main.ts
OnBubbleCreate(w, name, pos, vel) ==
    [w EXCEPT !.particles = AddParticleResult(@, name, pos, vel),
              !.pages = Append(@, NewPage(name, <<>>))]
\* OnBubbleDelete without pages.remove(name)
OnBubbleDeleteKeepsPage(w, name) ==
    [w EXCEPT !.particles = RemoveParticleResult(@, name)]
OnBubbleDelete(w, name) ==
    [w EXCEPT !.particles = RemoveParticleResult(@, name),
              !.pages = RemoveResult(@, name)]
OnBubbleSelect(w, name) ==
    [w EXCEPT !.deleteButton = [kind |-> "remove", from |-> name, to |-> ""]]
OnBubbleDeselect(w) == [w EXCEPT !.deleteButton = NoHandler]
OnArrowCreate(w, from, to) ==
    LET s == SetWeightCall(w.particles, w.weights, from, to, Num(100))
        l == LinkCall(w.pages, from, to)
    IN  IF s.err THEN [w EXCEPT !.err = TRUE]
        ELSE [w EXCEPT !.weights = s.weights, !.pages = l.pages, !.err = l.err]
OnArrowDelete(w, from, to) ==
    LET s == SetWeightCall(w.particles, w.weights, from, to, Num(0))
        l == UnlinkCall(w.pages, from, to)
    IN  IF s.err THEN [w EXCEPT !.err = TRUE]
        ELSE [w EXCEPT !.weights = s.weights, !.pages = l.pages, !.err = l.err]
OnArrowSelect(w, from, to) ==
    [w EXCEPT !.deleteButton = [kind |-> "removeArrow", from |-> from, to |-> to]]
OnArrowDeselect(w) == [w EXCEPT !.deleteButton = NoHandler]

\* Bubble.select and Arrow.select
EntitySelect(w, e) ==
    LET w1 == [w EXCEPT !.marked = @ \cup {e}]
    IN  IF e.kind = "bubble"
        THEN OnBubbleSelect(Fired(w1, "bubbleSelect", e), e.from)
        ELSE OnArrowSelect(Fired(w1, "arrowSelect", e), e.from, e.to)

\* Bubble.deselect and Arrow.deselect
EntityDeselect(w, e) ==
    LET w1 == [w EXCEPT !.marked = @ \ {e}]
    IN  IF e.kind = "bubble"
        THEN OnBubbleDeselect(Fired(w1, "bubbleDeselect", e))
        ELSE OnArrowDeselect(Fired(w1, "arrowDeselect", e))

\* Bubbles.select
SelectCall(w, entity) ==
    LET w1 == IF w.selected # NoEntity THEN EntityDeselect(w, w.selected) ELSE w
    IN  IF w1.selected = entity THEN [w1 EXCEPT !.selected = NoEntity]
        ELSE IF entity # NoEntity
        THEN EntitySelect([w1 EXCEPT !.selected = entity], entity)
        ELSE w1

\* new Bubble(this, name) and this.bubbles.set(name, .) of Bubbles.add
BubblesAdd(w, name, pos, vel) ==
    LET w1 == OnBubbleCreate(Fired(w, "bubbleCreate", BubbleEntity(name)), name, pos, vel)
    IN  [w1 EXCEPT !.bubbles = Append(@, NewBubble(name))]

\* Arrow.delete
ArrowDelete(w, arrow) ==
    IF w.err THEN w
    ELSE LET w1 == OnArrowDelete(Fired(w, "arrowDelete", arrow), arrow.from, arrow.to)
             bs == w1.bubbles
         IN  IF w1.err THEN w1
             ELSE [w1 EXCEPT !.bubbles =
                     [i \in DOMAIN bs |->
                         [bs[i] EXCEPT
                             !.arrowsFrom = IF bs[i].name = arrow.from
                                            THEN SelectSeq(@, LAMBDA a : a # arrow) ELSE @,
                             !.arrowsTo = IF bs[i].name = arrow.to
                                          THEN SelectSeq(@, LAMBDA a : a # arrow) ELSE @]]]

\* forEach(arrow => arrow.delete()) over an array of arrows
RECURSIVE DeleteEach(_, _, _)
DeleteEach(w, arrows, k) ==
    IF k > Len(arrows) THEN w
    ELSE DeleteEach(ArrowDelete(w, arrows[k]), arrows, k + 1)

\* BubbleDelete firing bubbleDelete before the arrows are deleted
BubbleDeleteEventFirst(w, name) ==
    IF w.err THEN w
    ELSE LET i == Find(w.bubbles, name)
             w1 == OnBubbleDelete(Fired(w, "bubbleDelete", BubbleEntity(name)), name)
             w2 == DeleteEach(w1, w1.bubbles[i].arrowsFrom, 1)
             w3 == DeleteEach(w2, w2.bubbles[i].arrowsTo, 1)
         IN  IF w3.err THEN w3
             ELSE [w3 EXCEPT !.bubbles = SelectSeq(@, LAMBDA b : b.name # name)]

\* Bubble.delete of the bubble named name, which is in the map
BubbleDelete(w, name) ==
    IF w.err THEN w
    ELSE LET i == Find(w.bubbles, name)
             w1 == DeleteEach(w, w.bubbles[i].arrowsFrom, 1)
             w2 == DeleteEach(w1, w1.bubbles[i].arrowsTo, 1)
             w3 == OnBubbleDelete(Fired(w2, "bubbleDelete", BubbleEntity(name)), name)
         IN  IF w2.err THEN w2
             ELSE [w3 EXCEPT !.bubbles = SelectSeq(@, LAMBDA b : b.name # name)]

\* Bubbles.remove
BubblesRemove(w, name) ==
    IF Find(w.bubbles, name) = 0 THEN w ELSE BubbleDelete(w, name)

\* Bubbles.clear
RECURSIVE ClearLoop(_, _, _)
ClearLoop(w, names, k) ==
    IF k > Len(names) THEN w
    ELSE ClearLoop(BubblesRemove(w, names[k]), names, k + 1)
BubblesClear(w) ==
    LET w1 == ClearLoop(w, [i \in DOMAIN w.bubbles |-> w.bubbles[i].name], 1)
    IN  IF w1.err THEN w1 ELSE [w1 EXCEPT !.bubbles = <<>>]

\* Bubbles.addArrow with new Arrow(this, fromBubble, toBubble)
AddArrow(w, from, to) ==
    IF w.err THEN w
    ELSE IF Find(w.bubbles, from) = 0 THEN w
    ELSE IF Find(w.bubbles, to) = 0 THEN w
    ELSE LET arrow == ArrowEntity(w.nextArrow, from, to)
             bs == w.bubbles
             pushed == [i \in DOMAIN bs |->
                          [bs[i] EXCEPT
                              !.arrowsFrom = IF bs[i].name = from THEN Append(@, arrow) ELSE @,
                              !.arrowsTo = IF bs[i].name = to THEN Append(@, arrow) ELSE @]]
         IN  OnArrowCreate(Fired([w EXCEPT !.bubbles = pushed, !.nextArrow = @ + 1],
                                 "arrowCreate", arrow),
                           from, to)

\* Bubbles.removeArrow
RemoveArrow(w, from, to) ==
    IF Find(w.bubbles, from) = 0 THEN w
    ELSE IF Find(w.bubbles, to) = 0 THEN w
    ELSE DeleteEach(w,
                    SelectSeq(w.bubbles[Find(w.bubbles, from)].arrowsFrom,
                              LAMBDA a : a.from = from /\ a.to = to),
                    1)

\* DropArrow without the call of removeArrow
DropArrowKeepsOld(w, from, to) ==
    IF from # to THEN AddArrow(w, from, to) ELSE w

\* GhostArrow.onMouseUp over the bubble named to
DropArrow(w, from, to) ==
    IF from # to THEN AddArrow(RemoveArrow(w, from, to), from, to) ELSE w

\* a rational as a layout number
ToGrid(r) ==
    LET n == Abs(r[1])
        g == (n \div r[2]) * Scale + ((n % r[2]) * Scale) \div r[2]
    IN  <<IF r[1] < 0 THEN -g ELSE g>>

\* 90 + 50 * score
DriverSize(score) == ToGrid(RAdd(Rat(90, 1), RMul(Rat(50, 1), score)))

\* centreOffset: half the width and height of the graph element
CentreOffset == Vec(40, 30)

\* the loop of update() over graph.particles, from particle k on
RECURSIVE ReadBack(_, _)
ReadBack(w, k) ==
    IF k > Len(w.particles) THEN w
    ELSE LET name == w.particles[k].name
             g == GetScoreCall(w.pages, name)
             r == ResizeParticleCall(w.particles, name, DriverSize(g.val))
             i == Find(w.bubbles, name)
             shown == IF i = 0 THEN w.bubbles
                      ELSE [w.bubbles EXCEPT ![i].pos = VAdd(r.particles[k].pos, CentreOffset),
                                             ![i].size = r.particles[k].size]
         IN  IF g.err THEN [w EXCEPT !.err = TRUE]
             ELSE ReadBack([w EXCEPT !.particles = r.particles, !.bubbles = shown], k + 1)

\* TickResult with the read-back done before the two engines have run
TickReadsFirst(w, d, cfg) ==
    LET w1 == ReadBack(w, 1)
        u == UpdateResult(w1.pages, d)
    IN  [world |-> [w1 EXCEPT !.pages = u.pages,
                              !.particles = StepResult(w1.particles, w1.weights, cfg)],
         stable |-> u.stable]

\* update of main.ts: pages.update(), graph.step(), then the read-back
TickResult(w, d, cfg) ==
    LET u == UpdateResult(w.pages, d)
        stepped == StepResult(w.particles, w.weights, cfg)
    IN  [world |-> ReadBack([w EXCEPT !.pages = u.pages, !.particles = stepped], 1),
         stable |-> u.stable]

\* the score getScore gives for every name that has a page
ScoresOf(ps) ==
    [n \in {ps[i].name : i \in DOMAIN ps} |-> ps[Find(ps, n)].score]

\* the state an event or frame leaves, and its record
Commit(w, kind, a, b, stable, val) ==
    /\ pages' = w.pages
    /\ particles' = w.particles
    /\ weights' = w.weights
    /\ bubbles' = w.bubbles
    /\ selected' = w.selected
    /\ marked' = w.marked
    /\ deleteButton' = w.deleteButton
    /\ nextArrow' = w.nextArrow
    /\ fired' = w.fired
    /\ DriverCall(Outcome(kind, a, b, w.err, stable, val))

\* the arrows whose element is in the document
ArrowsShown ==
    UNION {{bubbles[i].arrowsFrom[k] : k \in DOMAIN bubbles[i].arrowsFrom} :
              i \in DOMAIN bubbles}

\* the addNode button, or a double click on the graph: bubbles.add()
AddNode(pos, vel) ==
    /\ nextId <= MaxBubbles
    /\ nextId' = nextId + 1
    /\ Commit(BubblesAdd(World, PageNames[nextId], pos, vel),
              "addNode", PageNames[nextId], "", FALSE, R0)
    /\ UNCHANGED <<damping, tick>>

\* a click on a bubble
ClickBubble(name) ==
    /\ Find(bubbles, name) # 0
    /\ Commit(SelectCall(World, BubbleEntity(name)),
              "clickBubble", name, "", FALSE, BubbleEntity(name))
    /\ UNCHANGED <<damping, tick, nextId>>

\* a click on a bubble with the shift key: this.delete()
ShiftClickBubble(name) ==
    /\ Find(bubbles, name) # 0
    /\ Commit(BubbleDelete(World, name), "shiftClickBubble", name, "", FALSE, R0)
    /\ UNCHANGED <<damping, tick, nextId>>

\* mouse down on the bubble from, mouse up over the bubble to
Drag(from, to) ==
    /\ Find(bubbles, from) # 0
    /\ Find(bubbles, to) # 0
    /\ Commit(DropArrow(World, from, to), "drag", from, to, FALSE, R0)
    /\ UNCHANGED <<damping, tick, nextId>>

\* a click on an arrow
ClickArrow(arrow) ==
    /\ arrow \in ArrowsShown
    /\ Commit(SelectCall(World, arrow), "clickArrow", arrow.from, arrow.to, FALSE, arrow)
    /\ UNCHANGED <<damping, tick, nextId>>

\* a click on an arrow with the shift key: this.delete()
ShiftClickArrow(arrow) ==
    /\ arrow \in ArrowsShown
    /\ Commit(ArrowDelete(World, arrow), "shiftClickArrow", arrow.from, arrow.to, FALSE, R0)
    /\ UNCHANGED <<damping, tick, nextId>>

\* a click on the graph element itself: this.select(null)
ClickBackground ==
    /\ Commit(SelectCall(World, NoEntity), "clickBackground", "", "", FALSE, NoEntity)
    /\ UNCHANGED <<damping, tick, nextId>>

\* a click on the delete button while a handler is set
ClickDelete ==
    /\ deleteButton.kind # "none"
    /\ Commit(IF deleteButton.kind = "remove"
              THEN BubblesRemove(World, deleteButton.from)
              ELSE RemoveArrow(World, deleteButton.from, deleteButton.to),
              "clickDelete", deleteButton.from, deleteButton.to, FALSE, R0)
    /\ UNCHANGED <<damping, tick, nextId>>

\* the clear button: bubbles.clear()
ClickClear ==
    /\ Commit(BubblesClear(World), "clear", "", "", FALSE, R0)
    /\ UNCHANGED <<damping, tick, nextId>>

\* the reset button: pages.reset()
ClickReset ==
    /\ tick' = 0
    /\ Commit([World EXCEPT !.pages = ResetResult(@)], "reset", "", "", FALSE, R0)
    /\ UNCHANGED <<damping, nextId>>

\* the damping slider
DriverDampings == {Rat(1, 2)}
InputDamping(d) ==
    /\ damping' = d
    /\ Commit(World, "setDamping", "", "", FALSE, d)
    /\ UNCHANGED <<tick, nextId>>

\* an animation frame: update()
Tick ==
    /\ Representable(pages, damping)
    /\ InRange(particles)
    /\ LET r == TickResult(World, damping, settings)
       IN  /\ tick' = tick + 1
           /\ Commit(r.world, "tick", "", "", r.stable, ScoresOf(r.world.pages))
    /\ UNCHANGED <<damping, nextId>>

----------------------------------------------------------------------------
(* Specifications.                                                         *)

\* arguments the calls are tried with
SizeArgs == {Num(3)}
WeightArgs == {Num(-5), Num(100)}
PosArgs == {Vec(3, 4)}

\* new Pages(damping, pages): the lists the engine is constructed with
CyclePages ==
    <<NewPage("A", <<"B">>), NewPage("B", <<"C">>), NewPage("C", <<"A">>)>>
ExamplePages ==
    <<NewPage("A", <<"B", "C">>), NewPage("B", <<"C">>), NewPage("C", <<"A">>)>>
ConstructedWith ==
    { <<>>, CyclePages, ExamplePages,
      <<NewPage("C", <<"A">>), NewPage("B", <<"C">>), NewPage("A", <<"B">>)>>,
      <<NewPage("A", <<>>), NewPage("B", <<>>)>>,
      <<NewPage("A", <<>>), NewPage("B", <<"A", "C">>)>>,
      <<NewPage("A", <<"B", "C", "B", "A">>), NewPage("B", <<>>)>> }

NoCall == Outcome("new", "", "", FALSE, FALSE, R0)

\* new Graph(): no particles, no weights
EmptyWeights == [k \in {} |-> Num(0)]

\* no driver tick yet
NoTick == [done |-> FALSE, scores |-> [n \in {} |-> R0]]

\* new Pages(damping, pages), new Graph() and new Bubbles(parent), as main.ts
\* constructs them, the score engine with any of the lists above
Init ==
    /\ driven \in {"pages", "graph", "driver"}
    /\ bubbles = <<>>
    /\ selected = NoEntity
    /\ marked = {}
    /\ deleteButton = NoHandler
    /\ nextId = 1
    /\ nextArrow = 1
    /\ fired = <<>>
    /\ tickScores = NoTick
    /\ settings \in (IF driven = "graph" THEN SettingsArgs ELSE {DefaultSettings})
    /\ lastSet = EmptyWeights
    /\ pages \in (IF driven = "pages" THEN ConstructedWith ELSE {<<>>})
    /\ damping \in (IF driven = "pages" THEN Dampings ELSE {Rat(17, 20)})
    /\ tick = 0
    /\ particles = <<>>
    /\ weights = EmptyWeights
    /\ op = NoCall
    /\ calls = 0
    /\ updates = 0
    /\ pre = [pages |-> pages, damping |-> damping, tick |-> 0,
              particles |-> <<>>, weights |-> EmptyWeights,
              bubbles |-> <<>>, selected |-> NoEntity, marked |-> {},
              tickScores |-> NoTick]

PagesNext ==
    \/ Update
    \/ Reset
    \/ \E n \in Names : GetScore(n)
    \/ \E n \in Names : Remove(n)
    \/ \E n \in Names : Add(n)
    \/ \E f \in Names, t \in Names : Link(f, t)
    \/ \E f \in Names, t \in Names : Unlink(f, t)
    \/ \E d \in Dampings : SetDamping(d)

GraphNext ==
    \/ \E n \in GraphNames, r \in RandomDraws : AddParticle(n, r[1], r[2])
    \/ \E n \in GraphNames : RemoveParticle(n)
    \/ \E n \in GraphNames, s \in SizeArgs : ResizeParticle(n, s)
    \/ \E a \in GraphNames : \E b \in GraphNames \ {a}, w \in WeightArgs :
          SetWeight(a, b, w)
    \/ \E n \in GraphNames, p \in PosArgs : SetParticlePosition(n, p)
    \/ Step

DriverNames == {PageNames[i] : i \in DOMAIN PageNames}
DriverArrows ==
    {ArrowEntity(i, f, t) : i \in 1..MaxDriverCalls, f \in DriverNames, t \in DriverNames}

DriverNext ==
    \/ \E r \in RandomDraws : AddNode(r[1], r[2])
    \/ \E n \in DriverNames : ClickBubble(n)
    \/ \E n \in DriverNames : ShiftClickBubble(n)
    \/ \E f \in DriverNames, t \in DriverNames : Drag(f, t)
    \/ \E a \in DriverArrows : ClickArrow(a)
    \/ \E a \in DriverArrows : ShiftClickArrow(a)
    \/ ClickBackground
    \/ ClickDelete
    \/ ClickClear
    \/ ClickReset
    \/ \E d \in DriverDampings : InputDamping(d)
    \/ Tick

Next == PagesNext \/ GraphNext

\* both engines, one of them per run
InitEngines == Init /\ driven \in {"pages", "graph"}
Spec == InitEngines /\ [][Next]_vars

\* the page as main.ts runs it
InitDriver == Init /\ driven = "driver"
SpecDriver == InitDriver /\ [][DriverNext]_vars

\* the score engine alone, and the layout engine alone
InitPages == Init /\ driven = "pages"
SpecPages == InitPages /\ [][PagesNext]_vars
InitGraph == Init /\ driven = "graph"
SpecGraph == InitGraph /\ [][GraphNext]_vars

----------------------------------------------------------------------------
(* The claims.                                                             *)

\* the name is the name of no element of ps
Absent(ps, name) == \A i \in DOMAIN ps : ps[i].name # name

\* sum over every page Q whose link list contains name of Q.score / |Q.links|
RECURSIVE IncomingSum(_, _, _)
IncomingSum(name, ps, i) ==
    IF i > Len(ps) THEN R0
    ELSE RAdd(IF \E k \in DOMAIN ps[i].links : ps[i].links[k] = name
              THEN RDivInt(ps[i].score, Len(ps[i].links)) ELSE R0,
              IncomingSum(name, ps, i + 1))

\* (1 - damping) + damping * that sum
FormulaScore(name, ps, d) == RAdd(RSub(R1, d), RMul(d, IncomingSum(name, ps, 1)))

\* C1: after Pages.update() every page's score is (1 - damping) + damping * the
\* sum, over the pages that link to it, of their old score / their link count,
\* old scores and damping being those just before the call.
C1_UpdateFormula ==
    op.kind = "update" =>
        \A i \in DOMAIN pages :
            pages[i].score = FormulaScore(pages[i].name, pre.pages, pre.damping)

\* C2: two engines holding the same pages in different orders get, from one
\* update(), the same score for every page and the same returned flag: the
\* update of any reordering of the pages agrees with the update that ran.
C2_OrderIrrelevant ==
    op.kind = "update" =>
        \A s \in Permutations(DOMAIN pre.pages) :
            LET other == UpdateResult([i \in DOMAIN pre.pages |-> pre.pages[s[i]]],
                                      pre.damping)
            IN  /\ other.stable = op.stable
                /\ \A i \in DOMAIN pre.pages : other.pages[i].score = pages[s[i]].score

\* the score of page i changed by less than 0.0001 in the last call
SmallChange(i) ==
    RLt(RAbs(RSub(pages[i].score, pre.pages[i].score)), <<1, 10000>>)

\* C3: Pages.update() returns true exactly when every page's score after the
\* call differs from its score before the call by less than 0.0001 (true
\* when there are no pages).
C3_StableIff ==
    op.kind = "update" => (op.stable <=> \A i \in DOMAIN pages : SmallChange(i))

\* an update returned true although a score changed (by less than 0.0001), and
\* the engine holds a page whose score it left alone
C3_Witness ==
    /\ op.kind = "update"
    /\ op.stable
    /\ \E i \in DOMAIN pages : pages[i].score # pre.pages[i].score
    /\ Len(pages) >= 2

\* C4: after Pages.reset() every score is 1 and tick is 0; the pages, their
\* order, their link lists and damping are as before the call.
C4_Reset ==
    op.kind = "reset" =>
        /\ tick = 0
        /\ damping = pre.damping
        /\ Len(pages) = Len(pre.pages)
        /\ \A i \in DOMAIN pages :
              /\ pages[i].score = R1
              /\ pages[i].name = pre.pages[i].name
              /\ pages[i].links = pre.pages[i].links

\* a reset after updates that had moved a score away from 1
C4_Witness ==
    /\ op.kind = "reset"
    /\ pre.tick >= 2
    /\ \E i \in DOMAIN pages : pre.pages[i].score # R1 /\ pre.pages[i].links # <<>>

\* the pages are A, B, C in some order with the links A -> B, B -> C, C -> A
CycleNext == [n \in Names |-> IF n = "A" THEN "B" ELSE IF n = "B" THEN "C" ELSE "A"]
IsCycle(ps) ==
    /\ Len(ps) = 3
    /\ {ps[i].name : i \in DOMAIN ps} = Names
    /\ \A i \in DOMAIN ps : ps[i].links = <<CycleNext[ps[i].name]>>

\* every call so far was an update(): only update() adds to tick
OnlyUpdates == driven = "pages" /\ tick = calls

\* C5: on the cycle A -> B -> C -> A with damping 0.85 and scores 1, after each
\* of any number of update() calls every score is 1 and the call returned true.
C5_CycleFixed ==
    (IsCycle(pages) /\ OnlyUpdates /\ damping = Rat(17, 20)) =>
        /\ \A i \in DOMAIN pages : pages[i].score = R1
        /\ calls > 0 => op.kind = "update" /\ op.stable

\* the cycle after its second update()
C5_Witness ==
    /\ IsCycle(pages)
    /\ OnlyUpdates
    /\ damping = Rat(17, 20)
    /\ tick >= 2

\* C6: a page with an empty link list gives nothing and nothing is divided by
\* zero: when every other page has an empty link list and the page does not
\* link to itself, its score after update() is exactly 1 - damping.
C6_SinksGiveNothing ==
    op.kind = "update" =>
        \A i \in DOMAIN pages :
            ( /\ \A j \in DOMAIN pre.pages : j # i => pre.pages[j].links = <<>>
              /\ \A k \in DOMAIN pre.pages[i].links : pre.pages[i].links[k] # pages[i].name )
            => pages[i].score = RSub(R1, pre.damping)

\* the indices of the elements of ps not named name, and the k-th of a set of
\* indices
KeptIdx(ps, name) == {i \in DOMAIN ps : ps[i].name # name}
Nth(S, k) == CHOOSE i \in S : Cardinality({j \in S : j <= i}) = k

\* after is before without the elements named name, the others as they were
\* and in their order
OthersKept(before, after, name) ==
    /\ Len(after) = Cardinality(KeptIdx(before, name))
    /\ \A k \in DOMAIN after : after[k] = before[Nth(KeptIdx(before, name), k)]

\* the first index of ps with that name
FirstNamed(ps, name) ==
    CHOOSE i \in DOMAIN ps : ps[i].name = name /\ \A j \in 1..(i - 1) : ps[j].name # name

\* page j of ps links to a name that has no page
HasDangling(ps, j) == \E k \in DOMAIN ps[j].links : Absent(ps, ps[j].links[k])

\* C7: dangling links are tolerated.  link(from, to) with a page for from
\* and none for to appends to and raises nothing; update() raises nothing, and
\* leaves each page with the formula's score, which counts a source only when
\* its list holds the page's own name and divides by the whole length of that
\* list, or else with the newScore it already held; remove(name) leaves the
\* other pages, their link lists included, as they were.
C7_DanglingTolerated ==
    /\ (op.kind = "link" /\ ~Absent(pre.pages, op.a) /\ Absent(pre.pages, op.b)) =>
          /\ ~op.err
          /\ pages = [pre.pages EXCEPT ![FirstNamed(pre.pages, op.a)].links =
                                           pre.pages[FirstNamed(pre.pages, op.a)].links \o <<op.b>>]
    /\ op.kind = "update" =>
          /\ ~op.err
          /\ \A i \in DOMAIN pages :
                \/ pages[i].score = FormulaScore(pages[i].name, pre.pages, pre.damping)
                \/ pages[i].score = pre.pages[i].newScore
    /\ op.kind = "remove" =>
          /\ ~op.err
          /\ OthersKept(pre.pages, pages, op.a)

\* an update() in which the first page was linked to by a page that also had a
\* dangling link, and got half of that page's damped score
C7_Witness ==
    /\ op.kind = "update"
    /\ Len(pages) >= 2
    /\ \E j \in DOMAIN pre.pages :
          /\ HasDangling(pre.pages, j)
          /\ Len(pre.pages[j].links) = 2
          /\ \E k \in DOMAIN pre.pages[j].links : pre.pages[j].links[k] = pages[1].name
          /\ pages[1].score =
                RAdd(RSub(R1, pre.damping),
                     RDivInt(RMul(pre.damping, pre.pages[j].score), 2))

\* nothing of either engine changed in the last call
NothingChanged == Snapshot = pre

\* C8: a call that needs an existing name raises an error and changes nothing
\* when the name is absent: resizeParticle, setParticlePosition, setWeight (either
\* name), link and unlink (from), getScore.
C8_UnknownNameFails ==
    /\ (op.kind \in {"resizeParticle", "setParticlePosition"} /\ Absent(pre.particles, op.a))
          => op.err /\ NothingChanged
    /\ (op.kind = "setWeight" /\ (Absent(pre.particles, op.a) \/ Absent(pre.particles, op.b)))
          => op.err /\ NothingChanged
    /\ (op.kind \in {"link", "unlink", "getScore"} /\ Absent(pre.pages, op.a))
          => op.err /\ NothingChanged

\* setWeight(a, b, w) failed with a particle for a, none for b and weights set
C8_Witness ==
    /\ op.kind = "setWeight"
    /\ op.err
    /\ ~Absent(particles, op.a)
    /\ Absent(particles, op.b)
    /\ DOMAIN weights # {}

\* C9: removeParticle(name) and Pages.remove(name) raise no error; the elements
\* with another name stay as they were and in their order; nothing else
\* changes; with name absent nothing changes at all, and name is absent
\* afterwards, so a second removal changes nothing.
C9_RemoveIdempotent ==
    /\ op.kind = "removeParticle" =>
          /\ ~op.err
          /\ OthersKept(pre.particles, particles, op.a)
          /\ weights = pre.weights
          /\ Absent(pre.particles, op.a) => NothingChanged
          /\ Absent(particles, op.a)
          /\ RemoveParticleResult(particles, op.a) = particles
    /\ op.kind = "remove" =>
          /\ ~op.err
          /\ OthersKept(pre.pages, pages, op.a)
          /\ damping = pre.damping /\ tick = pre.tick
          /\ Absent(pre.pages, op.a) => NothingChanged
          /\ Absent(pages, op.a)
          /\ RemoveResult(pages, op.a) = pages

\* a particle was removed from among three, and two others remain
C9_Witness ==
    /\ op.kind = "removeParticle"
    /\ ~Absent(pre.particles, op.a)
    /\ Len(pre.particles) = 3
    /\ Len(particles) = 2

\* C10: addParticle(name) fails when a particle named name is present, so no
\* two particles ever have the same name.
C10_UniqueParticleNames ==
    /\ (op.kind = "addParticle" /\ ~Absent(pre.particles, op.a)) =>
          op.err /\ particles = pre.particles
    /\ \A i \in DOMAIN particles, j \in DOMAIN particles :
          i # j => particles[i].name # particles[j].name

\* C18: tick is the number of update() calls since construction or the last
\* reset(): update() adds exactly 1; add, remove, link, unlink, getScore and an
\* assignment to damping change neither tick nor the score of any page; the
\* damping an update() uses is the one assigned last before it.
C18_TickCounts ==
    driven = "pages" =>
        /\ tick = updates
        /\ op.kind = "update" =>
              /\ tick = pre.tick + 1
              /\ pages # <<>> =>
                    pages[1].score = FormulaScore(pages[1].name, pre.pages, pre.damping)
        /\ op.kind \in {"add", "remove", "link", "unlink", "getScore", "setDamping"} =>
              tick = pre.tick
        /\ op.kind \in {"link", "unlink", "getScore", "setDamping"} =>
              /\ Len(pages) = Len(pre.pages)
              /\ \A i \in DOMAIN pages : pages[i].score = pre.pages[i].score
        /\ op.kind = "add" =>
              /\ Len(pages) = Len(pre.pages) + 1
              /\ \A i \in DOMAIN pre.pages : pages[i].score = pre.pages[i].score
        /\ op.kind = "remove" => OthersKept(pre.pages, pages, op.a)

\* a new damping was assigned after an update() had moved a score away from 1
C18_Witness ==
    /\ op.kind = "setDamping"
    /\ damping # pre.damping
    /\ tick >= 1
    /\ \E i \in DOMAIN pages : pages[i].score # R1

\* the entries of a link list other than to, and after is before without to,
\* the other entries in their order
KeptLinks(before, to) == {k \in DOMAIN before : before[k] # to}
LinksKept(before, after, to) ==
    /\ Len(after) = Cardinality(KeptLinks(before, to))
    /\ \A k \in DOMAIN after : after[k] = before[Nth(KeptLinks(before, to), k)]

\* the pages other than page i have the link lists they had
OtherLinksSame(i) ==
    /\ Len(pages) = Len(pre.pages)
    /\ \A j \in DOMAIN pages : j # i => pages[j].links = pre.pages[j].links

\* C19: link(from, to) appends to at the end of from's link list, also when
\* to is already in it or is from itself; unlink(from, to) removes every
\* occurrence of to from that list, keeps the other entries in their order and,
\* with to not in the list, changes nothing and raises nothing; neither changes
\* the link list of another page.
C19_LinkUnlink ==
    /\ (op.kind = "link" /\ ~Absent(pre.pages, op.a)) =>
          LET i == FirstNamed(pre.pages, op.a)
          IN  /\ ~op.err
              /\ pages[i].links = pre.pages[i].links \o <<op.b>>
              /\ OtherLinksSame(i)
    /\ (op.kind = "unlink" /\ ~Absent(pre.pages, op.a)) =>
          LET i == FirstNamed(pre.pages, op.a)
          IN  /\ ~op.err
              /\ LinksKept(pre.pages[i].links, pages[i].links, op.b)
              /\ ~Includes(pages[i].links, op.b)
              /\ ~Includes(pre.pages[i].links, op.b) => NothingChanged
              /\ OtherLinksSame(i)

\* an unlink that removed two occurrences and kept two other entries, after a
\* link that had appended a name already in the list
C19_Witness ==
    /\ op.kind = "unlink"
    /\ \E i \in DOMAIN pages :
          /\ Len(pre.pages[i].links) = Len(pages[i].links) + 2
          /\ Len(pages[i].links) >= 2

\* the weight last set for <<a, b>>, 0 when none was, and the largest of a set
\* of layout numbers
LastSet(a, b) == IF <<a, b>> \in DOMAIN lastSet THEN lastSet[<<a, b>>] ELSE Num(0)
MaxOf(S) == CHOOSE m \in S : \A x \in S : x[1] <= m[1]

\* C11: the effective weight between particles a and b is the largest of 0, the
\* weight last set for (a, b) and the weight last set for (b, a), a pair never
\* set counting as 0: a later setWeight(a, b, y) replaces the earlier one, the
\* weight is the same for (a, b) and (b, a), and it is never negative.
C11_EffectiveWeight ==
    \A i \in DOMAIN particles, j \in DOMAIN particles :
        LET a == particles[i]
            b == particles[j]
            w == GetWeight(weights, a, b)
        IN  /\ w = MaxOf({Num(0), LastSet(a.name, b.name), LastSet(b.name, a.name)})
            /\ w = GetWeight(weights, b, a)
            /\ w[1] >= 0

\* setWeight(a, b, -5) replaced the 100 set for (a, b) before, both particles
\* present, and the effective weight is what was set for (b, a)
C11_Witness ==
    /\ op.kind = "setWeight"
    /\ ~op.err
    /\ op.a # op.b
    /\ op.val = Num(-5)
    /\ <<op.a, op.b>> \in DOMAIN pre.weights
    /\ pre.weights[<<op.a, op.b>>] = Num(100)
    /\ <<op.b, op.a>> \in DOMAIN weights
    /\ \E i \in DOMAIN particles, j \in DOMAIN particles :
          /\ particles[i].name = op.a
          /\ particles[j].name = op.b
          /\ GetWeight(weights, particles[i], particles[j]) = weights[<<op.b, op.a>>]

\* C12: removing a particle removes every edge that names it: a particle added
\* under a name that no particle had has effective weight 0 with every other
\* particle, also when a particle of that name had been removed before.
C12_RemovedEdgesGone ==
    (op.kind = "addParticle" /\ Absent(pre.particles, op.a)) =>
        \A i \in DOMAIN particles, j \in DOMAIN particles :
            (particles[i].name = op.a /\ i # j) =>
                GetWeight(weights, particles[i], particles[j]) = Num(0)

\* some coordinate of a vector, or of the position or velocity of a particle,
\* is NaN
VecNaN(u) == IsNaN(u[1]) \/ IsNaN(u[2])
AnyNaN(ps) == \E i \in DOMAIN ps : VecNaN(ps[i].pos) \/ VecNaN(ps[i].vel)

\* C13: Graph.step() moves every particle by the acceleration computed from the
\* positions and sizes all particles had before the step, and the step of any
\* reordering of the particle list leaves every particle with the same position
\* and velocity.
C13_Simultaneous ==
    op.kind = "step" =>
        /\ \A i \in DOMAIN particles :
              particles[i] =
                  Move(pre.particles[i],
                       ParticleAcceleration(pre.particles, pre.weights, settings, i),
                       settings.damping)
        /\ \A s \in Permutations(DOMAIN pre.particles) :
              LET other == StepResult([i \in DOMAIN pre.particles |-> pre.particles[s[i]]],
                                      pre.weights, settings)
              IN  \A i \in DOMAIN pre.particles : other[i] = particles[s[i]]

\* a step of three particles at three different places, none pushed the same
\* way, with a weight set between two of them
C13_Witness ==
    /\ op.kind = "step"
    /\ Len(particles) = 3
    /\ ~AnyNaN(particles)
    /\ \A i \in DOMAIN particles, j \in DOMAIN particles :
          i # j => /\ pre.particles[i].pos # pre.particles[j].pos
                   /\ particles[i].vel # particles[j].vel
    /\ \A i \in DOMAIN particles : particles[i].pos # pre.particles[i].pos

\* C14: a step gives every particle the velocity (old velocity + acceleration)
\* * damping and the position old position + new velocity; with damping 0 the
\* velocity after a step is 0, and a particle whose velocity was 0 before the
\* step, as after any earlier step, is where it was.
C14_MoveFormula ==
    op.kind = "step" =>
        \A i \in DOMAIN particles :
            LET p == pre.particles[i]
                accel == ParticleAcceleration(pre.particles, pre.weights, settings, i)
            IN  /\ particles[i].vel = VMulS(VAdd(p.vel, accel), settings.damping)
                /\ particles[i].pos = VAdd(p.pos, particles[i].vel)
                /\ settings.damping = R0 =>
                      /\ particles[i].vel = Vec(0, 0)
                      /\ p.vel = Vec(0, 0) => particles[i].pos = p.pos

\* C15: a step of particles without a NaN coordinate, two of them at the same
\* position included, leaves no particle with a NaN coordinate.
C15_NoNaN ==
    (op.kind = "step" /\ ~AnyNaN(pre.particles)) => ~AnyNaN(particles)

\* the weights a spring length is compared over, and u . v of two vectors
SampleWeights == {Num(0), Num(40), Num(100), Num(200)}
Dot(u, v) == FAdd(FMul(u[1], v[1]), FMul(u[2], v[2]))

\* C17: for distinct particles p and s with sizes >= 0 the spring length is at
\* least p.size + s.size and does not grow with the weight; with distance >
\* spring length the force on p is springConstant * (distance - spring length)
\* along the unit vector from p to s, with distance < spring length it is that
\* times repulsionFactor, pointing away from s, and with the two equal it is 0.
C17_SpringForce ==
    \A i \in DOMAIN particles, j \in DOMAIN particles :
        LET p == particles[i]
            s == particles[j]
            count == Len(particles)
            length == SpringLength(count, settings, GetWeight(weights, p, s), p, s)
            dist == Distance(p.pos, s.pos)
            toS == VSub(s.pos, p.pos)
            pull == FMulS(FSub(dist, length), settings.springConstant)
            f == SiblingForce(particles, weights, settings, p, s)
        IN  (i # j /\ p.size[1] >= 0 /\ s.size[1] >= 0 /\ ~IsNaN(dist)) =>
                /\ length[1] >= p.size[1] + s.size[1]
                /\ \A w1 \in SampleWeights, w2 \in SampleWeights :
                      w1[1] <= w2[1] =>
                          SpringLength(count, settings, w2, p, s)[1]
                              <= SpringLength(count, settings, w1, p, s)[1]
                /\ ~VecNaN(f)
                /\ dist[1] > length[1] =>
                      f = VMul(AsUnit(toS), pull) /\ Dot(f, toS)[1] >= 0
                /\ dist[1] < length[1] =>
                      /\ f = VMul(AsUnit(toS), FMulS(pull, settings.repulsionFactor))
                      /\ Dot(f, toS)[1] <= 0
                /\ dist[1] = length[1] => f = Vec(0, 0)

----------------------------------------------------------------------------
(* The driver and the renderer.                                            *)

\* no handler of main.ts and no call of the renderer throws in a run of the
\* page
DriverNeverThrows == driven = "driver" => ~op.err

\* select and deselect events of events[k..] alternate for every entity, the
\* entities of on having had a select last
RECURSIVE Alternates(_, _, _)
Alternates(events, on, k) ==
    IF k > Len(events) THEN TRUE
    ELSE IF events[k].event \in {"bubbleSelect", "arrowSelect"}
    THEN /\ events[k].entity \notin on
         /\ Alternates(events, on \cup {events[k].entity}, k + 1)
    ELSE IF events[k].event \in {"bubbleDeselect", "arrowDeselect"}
    THEN /\ events[k].entity \in on
         /\ Alternates(events, on \ {events[k].entity}, k + 1)
    ELSE Alternates(events, on, k + 1)

\* the deselect events of events for the entity e
DeselectsOf(events, e) ==
    Len(SelectSeq(events, LAMBDA ev : ev.event \in {"bubbleDeselect", "arrowDeselect"}
                                      /\ ev.entity = e))

\* C20: after Bubbles.select(entity) nothing is selected when entity is null or
\* was the selected one, otherwise entity is selected; the entity selected
\* before, if any, got exactly one deselect; and for every entity select and
\* deselect events alternate, starting with select.
C20_Select ==
    (driven = "driver" /\ op.kind \in {"clickBubble", "clickArrow", "clickBackground"}) =>
        /\ selected = IF op.val = NoEntity \/ op.val = pre.selected THEN NoEntity
                      ELSE op.val
        /\ pre.selected # NoEntity => DeselectsOf(fired, pre.selected) = 1
        /\ Alternates(fired, pre.marked, 1)

\* the second half of C20 alone: select(null) has left the entity selected, and
\* the next click on it deselects it a second time
C20_DeselectedTwice ==
    /\ driven = "driver"
    /\ op.kind = "clickBubble"
    /\ pre.selected = op.val
    /\ op.val \notin pre.marked
    /\ DeselectsOf(fired, op.val) = 1

\* the sizes the layout step of a tick works with, as the scores at the end
\* of the tick before give them
SizesFromScores(ps, scores) ==
    \A i \in DOMAIN ps :
        IF ps[i].name \in DOMAIN scores
        THEN ps[i].size = DriverSize(scores[ps[i].name])
        ELSE FALSE

\* C16 as stated: a tick is one update, then one step, then the read-back; at
\* its end every particle has size 90 + 50 * the score of its page; and the
\* step of a tick after the first has worked with the sizes the scores of the
\* tick before give.
C16_StepUsesPreviousScores ==
    (driven = "driver" /\ op.kind = "tick") =>
        /\ pages = UpdateResult(pre.pages, damping).pages
        /\ \A i \in DOMAIN particles :
               particles[i].size = DriverSize(GetScoreCall(pages, particles[i].name).val)
        /\ pre.tickScores.done => SizesFromScores(pre.particles, pre.tickScores.scores)

\* C16, amended: the same, but the step works with size 1 for a particle added
\* since the tick before (at the first tick: for every particle).
C16_TickOrder ==
    (driven = "driver" /\ op.kind = "tick") =>
        LET stepped == StepResult(pre.particles, pre.weights, settings)
        IN  /\ pages = UpdateResult(pre.pages, damping).pages
            /\ tick = pre.tick + 1
            /\ Len(particles) = Len(stepped)
            /\ \A i \in DOMAIN particles :
                   /\ particles[i].pos = stepped[i].pos
                   /\ particles[i].vel = stepped[i].vel
                   /\ particles[i].size
                        = DriverSize(GetScoreCall(pages, particles[i].name).val)
            /\ \A i \in DOMAIN pre.particles :
                   pre.particles[i].size =
                       IF pre.particles[i].name \in DOMAIN pre.tickScores.scores
                       THEN DriverSize(pre.tickScores.scores[pre.particles[i].name])
                       ELSE Num(1)

\* a second tick over one particle sized by the first tick and one added since
C16_Witness ==
    /\ driven = "driver"
    /\ op.kind = "tick"
    /\ pre.tickScores.done
    /\ \E i \in DOMAIN pre.particles :
           pre.particles[i].name \in DOMAIN pre.tickScores.scores
    /\ \E i \in DOMAIN pre.particles :
           /\ pre.particles[i].name \notin DOMAIN pre.tickScores.scores
           /\ pre.particles[i].size = Num(1)
    /\ \A i \in DOMAIN particles : ~AnyNaN(<<particles[i]>>)

\* the names of a list of pages, particles or bubbles
NameSet(s) == {s[i].name : i \in DOMAIN s}
NoRepeat(s) == \A i, j \in DOMAIN s : s[i].name = s[j].name => i = j

\* the arrows from the bubble named from to the bubble named to
ArrowsBetween(bs, from, to) ==
    {a \in UNION {{bs[i].arrowsFrom[k] : k \in DOMAIN bs[i].arrowsFrom} : i \in DOMAIN bs} :
        a.from = from /\ a.to = to}

\* C21: under the handlers of the driver the engines mirror the presentation:
\* particles, pages and bubbles have the same names, none repeated and none
\* given twice; the link list of a page is the list of targets of the arrows
\* leaving its bubble; the weight entry (from, to) is 100 when an arrow from ->
\* to exists and 0 or absent otherwise; and no tick raises an error.
C21_Mirror ==
    driven = "driver" =>
        /\ NameSet(particles) = NameSet(bubbles)
        /\ NameSet(pages) = NameSet(bubbles)
        /\ NoRepeat(particles) /\ NoRepeat(pages) /\ NoRepeat(bubbles)
        /\ NameSet(bubbles) \subseteq {PageNames[k] : k \in 1..(nextId - 1)}
        /\ op.kind = "addNode" =>
               /\ op.a = PageNames[nextId - 1]
               /\ op.a \notin NameSet(pre.bubbles) \cup NameSet(pre.pages)
                                                   \cup NameSet(pre.particles)
        /\ \A i \in DOMAIN bubbles :
               LET page == pages[Find(pages, bubbles[i].name)]
               IN  page.links = [k \in DOMAIN bubbles[i].arrowsFrom |->
                                    bubbles[i].arrowsFrom[k].to]
        /\ \A from \in DriverNames, to \in DriverNames :
               IF ArrowsBetween(bubbles, from, to) # {}
               THEN <<from, to>> \in DOMAIN weights /\ weights[<<from, to>>] = Num(100)
               ELSE WeightOr0(weights, <<from, to>>) = Num(0)
        /\ op.kind = "tick" => ~op.err

\* two bubbles joined by an arrow created after the arrow the other way round
\* has been deleted
C21_Witness ==
    /\ driven = "driver"
    /\ op.kind = "drag"
    /\ ~op.err
    /\ \E from \in DriverNames, to \in DriverNames :
           /\ ArrowsBetween(bubbles, from, to) # {}
           /\ <<to, from>> \in DOMAIN weights
           /\ weights[<<to, from>>] = Num(0)
           /\ Includes(pages[Find(pages, from)].links, to)

\* the arrows registered with the bubbles bs
ArrowsOf(bs) ==
    UNION {{bs[i].arrowsFrom[k] : k \in DOMAIN bs[i].arrowsFrom}
           \cup {bs[i].arrowsTo[k] : k \in DOMAIN bs[i].arrowsTo} : i \in DOMAIN bs}

\* the places of the event for the entity e in events
PlacesOf(events, event, e) ==
    {k \in DOMAIN events : events[k].event = event /\ events[k].entity = e}

\* a call that deletes bubbles: Bubble.delete by a shift-click, Bubbles.remove
\* by the delete button, Bubbles.clear
DeletesBubbles ==
    \/ op.kind \in {"shiftClickBubble", "clear"}
    \/ op.kind = "clickDelete" /\ op.b = ""

\* C22: deleting a bubble fires arrowDelete exactly once for every arrow
\* leaving or entering it and bubbleDelete only after them, no handler throws
\* (both particles and the from page exist when setWeight and unlink run), and
\* no remaining bubble keeps an arrow touching the deleted bubble.
C22_ArrowsThenBubble ==
    (driven = "driver" /\ DeletesBubbles) =>
        LET deleted == NameSet(pre.bubbles) \ NameSet(bubbles)
            touching == {a \in ArrowsOf(pre.bubbles) :
                            a.from \in deleted \/ a.to \in deleted}
        IN  /\ ~op.err
            /\ deleted = IF op.kind = "clear" THEN NameSet(pre.bubbles)
                         ELSE {op.a} \cap NameSet(pre.bubbles)
            /\ \A a \in touching : Cardinality(PlacesOf(fired, "arrowDelete", a)) = 1
            /\ \A k \in DOMAIN fired :
                   fired[k].event = "arrowDelete" => fired[k].entity \in touching
            /\ \A n \in deleted :
                   /\ Cardinality(PlacesOf(fired, "bubbleDelete", BubbleEntity(n))) = 1
                   /\ \A a \in touching :
                          (a.from = n \/ a.to = n) =>
                              \A i \in PlacesOf(fired, "arrowDelete", a),
                                 j \in PlacesOf(fired, "bubbleDelete", BubbleEntity(n)) :
                                  i < j
            /\ \A a \in ArrowsOf(bubbles) : a.from \notin deleted /\ a.to \notin deleted

\* a bubble deleted that had an arrow leaving it and an arrow entering it, with
\* the other bubble remaining
C22_Witness ==
    /\ driven = "driver"
    /\ DeletesBubbles
    /\ Len(bubbles) = 1
    /\ \E a \in ArrowsOf(pre.bubbles), b \in ArrowsOf(pre.bubbles) :
           /\ a.from = op.a /\ b.to = op.a
           /\ a.to = bubbles[1].name /\ b.from = bubbles[1].name
           /\ PlacesOf(fired, "arrowDelete", a) # {}
           /\ PlacesOf(fired, "arrowDelete", b) # {}

\* C23: after every update() the score of every page is at least 1 - damping,
\* pages added since the update before included.
C23_ScoreFloor ==
    (driven = "pages" /\ op.kind = "update") =>
        \A i \in DOMAIN pages : RLe(RSub(R1, damping), pages[i].score)

\* C24: with arrows created by the drag gesture there is at most one arrow for
\* every ordered pair of bubbles and none from a bubble to itself; a drop on a
\* bubble that has an arrow from the same source fires arrowDelete for the old
\* arrow and then arrowCreate for the new one; and no link list holds a target
\* twice.
C24_OneArrowPerPair ==
    driven = "driver" =>
        /\ \A from \in DriverNames, to \in DriverNames :
               Cardinality(ArrowsBetween(bubbles, from, to)) <= 1
        /\ \A a \in ArrowsOf(bubbles) : a.from # a.to
        /\ \A i \in DOMAIN pages :
               \A j, k \in DOMAIN pages[i].links :
                   pages[i].links[j] = pages[i].links[k] => j = k
        /\ op.kind = "drag" =>
               LET old == ArrowsBetween(pre.bubbles, op.a, op.b)
                   new == ArrowsBetween(bubbles, op.a, op.b)
               IN  IF op.a = op.b THEN fired = <<>> /\ bubbles = pre.bubbles
                   ELSE /\ Cardinality(new) = 1
                        /\ new \cap ArrowsOf(pre.bubbles) = {}
                        /\ fired =
                             (IF old = {} THEN <<>>
                              ELSE <<[event |-> "arrowDelete",
                                      entity |-> CHOOSE a \in old : TRUE]>>)
                             \o <<[event |-> "arrowCreate",
                                   entity |-> CHOOSE a \in new : TRUE]>>

\* a drop on a bubble that had an arrow from the same source
C24_Witness ==
    /\ driven = "driver"
    /\ op.kind = "drag"
    /\ ArrowsBetween(pre.bubbles, op.a, op.b) # {}
    /\ Len(fired) = 2
    /\ Includes(pages[Find(pages, op.a)].links, op.b)

\* C25: Bubbles.selected is null, a bubble that is in the bubbles map, or an
\* arrow that is registered in the arrow lists of its endpoints; deleting the
\* selected entity leaves nothing selected.
C25_SelectedExists ==
    driven = "driver" =>
        \/ selected = NoEntity
        \/ selected.kind = "bubble" /\ selected.from \in NameSet(bubbles)
        \/ selected.kind = "arrow" /\ selected \in ArrowsOf(bubbles)

\* the selected arrow deleted with an endpoint, and still the selected one
C25_ArrowOfDeletedBubble ==
    /\ driven = "driver"
    /\ op.kind = "shiftClickBubble"
    /\ selected.kind = "arrow"
    /\ selected \in ArrowsOf(pre.bubbles) \ ArrowsOf(bubbles)

\* two particles at two different places
Apart(p, s) == ~VecNaN(p.pos) /\ ~VecNaN(s.pos) /\ p.pos # s.pos

\* the sum of the accelerations of the particles i..Len(ps)
RECURSIVE SumAccel(_, _, _, _)
SumAccel(ps, ws, cfg, i) ==
    IF i > Len(ps) THEN Vec(0, 0)
    ELSE VAdd(ParticleAcceleration(ps, ws, cfg, i), SumAccel(ps, ws, cfg, i + 1))

\* C26: in every step, for two distinct particles at different positions the
\* force of s on p is the negative of the force of p on s, with the same
\* effective weight and the same spring length; the accelerations of particles
\* that are all at different positions sum to (0, 0); and with one particle or
\* none the acceleration is (0, 0) and the step raises no error.
C26_Antisymmetric ==
    (driven = "graph" /\ op.kind = "step") =>
        LET ps == pre.particles
            ws == pre.weights
        IN  /\ ~op.err
            /\ \A i \in DOMAIN ps, j \in DOMAIN ps :
                   (i # j /\ Apart(ps[i], ps[j])) =>
                       /\ GetWeight(ws, ps[i], ps[j]) = GetWeight(ws, ps[j], ps[i])
                       /\ SpringLength(Len(ps), settings, GetWeight(ws, ps[i], ps[j]),
                                       ps[i], ps[j])
                            = SpringLength(Len(ps), settings, GetWeight(ws, ps[j], ps[i]),
                                           ps[j], ps[i])
                       /\ ~VecNaN(SiblingForce(ps, ws, settings, ps[i], ps[j]))
                       /\ SiblingForce(ps, ws, settings, ps[i], ps[j])
                            = VSub(Vec(0, 0), SiblingForce(ps, ws, settings, ps[j], ps[i]))
            /\ (\A i \in DOMAIN ps, j \in DOMAIN ps : i # j => Apart(ps[i], ps[j])) =>
                   SumAccel(ps, ws, settings, 1) = Vec(0, 0)
            /\ Len(ps) <= 1 =>
                   \A i \in DOMAIN ps :
                       /\ ParticleAcceleration(ps, ws, settings, i) = Vec(0, 0)
                       /\ particles[i] = Move(ps[i], Vec(0, 0), settings.damping)

\* a step of two particles at different positions that pull each other, a
\* weight being set one way between them
C26_Witness ==
    /\ driven = "graph"
    /\ op.kind = "step"
    /\ Len(pre.particles) = 2
    /\ Apart(pre.particles[1], pre.particles[2])
    /\ pre.particles[1].name # pre.particles[2].name
    /\ WeightOr0(pre.weights, PairKey(pre.particles[1], pre.particles[2])) = Num(100)
    /\ WeightOr0(pre.weights, PairKey(pre.particles[2], pre.particles[1])) = Num(0)
    /\ SiblingForce(pre.particles, pre.weights, settings, pre.particles[1], pre.particles[2])
         # Vec(0, 0)

\* a step of three particles at three different positions
C26_ThreeApart ==
    /\ driven = "graph"
    /\ op.kind = "step"
    /\ Len(pre.particles) = 3
    /\ \A i \in 1..3, j \in 1..3 : i # j => Apart(pre.particles[i], pre.particles[j])
    /\ ParticleAcceleration(pre.particles, pre.weights, settings, 1) # Vec(0, 0)
====
